---- MODULE Spec2Model ----
(***************************************************************************)
(* CodeAutoFixEngine (src/demo.py): the repair pipeline auto_fix_code and  *)
(* its five stages.  A text is a sequence of one-character strings; the    *)
(* stages split it at "\n", rewrite lines and join them again, exactly as  *)
(* the Python code does.                                                   *)
(***************************************************************************)
EXTENDS Integers, Sequences, FiniteSets, TLC

VARIABLES original_code, fixed_code, pc, stage_input, trace, run, formatter

vars == <<original_code, fixed_code, pc, stage_input, trace, run, formatter>>

(***************************************************************************)
(* Bounds of the model.                                                    *)
(***************************************************************************)
MaxLines == 3
MaxRuns == 2

(***************************************************************************)
(* Characters and words.                                                   *)
(***************************************************************************)
NL == "\n"
TAB == "\t"
SP == " "

W_if == <<"i", "f">>
W_elif == <<"e", "l", "i", "f">>
W_else == <<"e", "l", "s", "e">>
W_for == <<"f", "o", "r">>
W_while == <<"w", "h", "i", "l", "e">>
W_def == <<"d", "e", "f">>
W_class == <<"c", "l", "a", "s", "s">>
W_return == <<"r", "e", "t", "u", "r", "n">>
W_pass == <<"p", "a", "s", "s">>
W_in == <<"i", "n">>
W_None == <<"N", "o", "n", "e">>
W_True == <<"T", "r", "u", "e">>
W_False == <<"F", "a", "l", "s", "e">>
W_id == <<"i", "d">>

Indent4 == <<SP, SP, SP, SP>>

\* Line 127: the longest line fix_style_issues leaves alone.
MaxLineLength == 100

\* Line 128: '  # truncated'
TruncMarker == <<SP, SP, "#", SP, "t", "r", "u", "n", "c", "a", "t", "e", "d">>

\* Line 40: '    pass'
PassLine == Indent4 \o W_pass

\* Line 115: 'return None'
ReturnNone == W_return \o <<SP>> \o W_None

(***************************************************************************)
(* str operations used by the stages.                                      *)
(***************************************************************************)
\* The characters str.strip() removes and \s matches, among those of a line.
IsSpace(c) == c \in {SP, TAB}

\* code.split('\n')
Split(code) ==
    LET nl == {i \in 1..Len(code) : code[i] = NL}
        n == Cardinality(nl)
        pos(k) == IF k = 0 THEN 0
                  ELSE IF k = n + 1 THEN Len(code) + 1
                  ELSE CHOOSE p \in nl : Cardinality({q \in nl : q <= p}) = k
    IN  [k \in 1..(n + 1) |-> SubSeq(code, pos(k - 1) + 1, pos(k) - 1)]

\* '\n'.join(lines)
RECURSIVE Join(_)
Join(lines) ==
    IF Len(lines) = 0 THEN <<>>
    ELSE IF Len(lines) = 1 THEN lines[1]
    ELSE lines[1] \o <<NL>> \o Join(Tail(lines))

\* The number of leading whitespace characters of a line (the group (\s*)).
LeadingWs(line) ==
    IF \A i \in 1..Len(line) : IsSpace(line[i]) THEN Len(line)
    ELSE (CHOOSE i \in 1..Len(line) :
             /\ ~IsSpace(line[i])
             /\ \A j \in 1..(i - 1) : IsSpace(line[j])) - 1

\* line.strip()
Strip(line) ==
    IF \A i \in 1..Len(line) : IsSpace(line[i]) THEN <<>>
    ELSE LET first == LeadingWs(line) + 1
             last == CHOOSE i \in 1..Len(line) :
                        /\ ~IsSpace(line[i])
                        /\ \A j \in (i + 1)..Len(line) : IsSpace(line[j])
         IN  SubSeq(line, first, last)

\* s.startswith(p)
StartsWith(s, p) == Len(s) >= Len(p) /\ SubSeq(s, 1, Len(p)) = p

(***************************************************************************)
(* auto_fix_syntax_errors (structural-token repair).                       *)
(***************************************************************************)
BlockKeywords == {W_if, W_elif, W_for, W_while, W_def, W_class}

\* re.match(r'^(if|elif|for|while|def|class) .*(?<!:)$', stripped)
MissingColonRe(stripped) ==
    /\ \E kw \in BlockKeywords : StartsWith(stripped, kw \o <<SP>>)
    /\ stripped[Len(stripped)] # ":"

\* re.match(r'^(\s*)(if|elif|for|while|def|class) .+:$', line)
BlockOpenerRe(line) ==
    LET rest == SubSeq(line, LeadingWs(line) + 1, Len(line))
    IN  \E kw \in BlockKeywords :
            /\ StartsWith(rest, kw \o <<SP>>)
            /\ Len(rest) >= Len(kw) + 3
            /\ rest[Len(rest)] = ":"

\* Lines 21-26: append ':' to the lines the first pattern matches.
AddMissingColons(lines) ==
    [i \in 1..Len(lines) |->
        IF MissingColonRe(Strip(lines[i])) THEN lines[i] \o <<":">>
        ELSE lines[i]]

\* re.sub(r'\t', '    ', code)
RECURSIVE ReplaceTabs(_)
ReplaceTabs(code) ==
    IF \A i \in 1..Len(code) : code[i] # TAB THEN code
    ELSE LET t == CHOOSE i \in 1..Len(code) :
                      code[i] = TAB /\ \A j \in 1..(i - 1) : code[j] # TAB
         IN  SubSeq(code, 1, t - 1) \o Indent4
                 \o ReplaceTabs(SubSeq(code, t + 1, Len(code)))

\* AddMissingPass without the look at the following line.
RECURSIVE AddPassAfterEveryOpener(_, _)
AddPassAfterEveryOpener(lines, i) ==
    IF i > Len(lines) THEN <<>>
    ELSE (IF BlockOpenerRe(lines[i])
          THEN <<lines[i], PassLine>>
          ELSE <<lines[i]>>) \o AddPassAfterEveryOpener(lines, i + 1)

\* Lines 36-44: the loop that adds 'pass' after a block opener whose next
\* line is absent or blank, from index i on.
RECURSIVE AddMissingPass(_, _)
AddMissingPass(lines, i) ==
    IF i > Len(lines) THEN <<>>
    ELSE (IF /\ BlockOpenerRe(lines[i])
             /\ (i + 1 > Len(lines) \/ Strip(lines[i + 1]) = <<>>)
          THEN <<lines[i], PassLine>>
          ELSE <<lines[i]>>) \o AddMissingPass(lines, i + 1)

auto_fix_syntax_errors(code) ==
    LET colons == Join(AddMissingColons(Split(code)))
        spaces == ReplaceTabs(colons)
    IN  Join(AddMissingPass(Split(spaces), 1))

(***************************************************************************)
(* fix_style_issues (line truncation).                                     *)
(***************************************************************************)
\* TruncateLine with the comparison off by one (>= for >).
TruncateLineFrom100(line) ==
    IF Len(line) >= MaxLineLength
    THEN SubSeq(line, 1, MaxLineLength) \o TruncMarker
    ELSE line

TruncateLine(line) ==
    IF Len(line) > MaxLineLength
    THEN SubSeq(line, 1, MaxLineLength) \o TruncMarker
    ELSE line

fix_style_issues(code) ==
    LET lines == Split(code)
    IN  Join([i \in 1..Len(lines) |-> TruncateLine(lines[i])])

(***************************************************************************)
(* ast.parse, on the statement forms the model's texts are made of: one    *)
(* statement per line; pass, return [expr], NAME = expr, expr, and the     *)
(* headers if/elif/while expr:, for NAME in expr:, def NAME(params):,      *)
(* class NAME:, each with an optional simple statement after the colon;    *)
(* expr is operand (op operand)* over names, numbers and None/True/False.  *)
(* Comments start at '#'; blocks follow Python's indentation rules.  A     *)
(* text outside these forms is a SyntaxError.  Tabs never reach the        *)
(* parser: auto_fix_syntax_errors replaces them before the first parse.    *)
(***************************************************************************)
Digits == {"0", "1", "2", "3", "4", "5", "6", "7", "8", "9"}

Letters ==
    {"a", "b", "c", "d", "e", "f", "g", "h", "i", "j", "k", "l", "m",
     "n", "o", "p", "q", "r", "s", "t", "u", "v", "w", "x", "y", "z",
     "A", "B", "C", "D", "E", "F", "G", "H", "I", "J", "K", "L", "M",
     "N", "O", "P", "Q", "R", "S", "T", "U", "V", "W", "X", "Y", "Z", "_"}

IsIdentChar(c) == c \in Letters \/ c \in Digits

\* Python's keywords (keyword.kwlist): never a Name node.
Keywords ==
    {
    <<"F", "a", "l", "s", "e">>, <<"N", "o", "n", "e">>,
     <<"T", "r", "u", "e">>, <<"a", "n", "d">>, <<"a", "s">>,
     <<"a", "s", "s", "e", "r", "t">>, <<"a", "s", "y", "n", "c">>,
     <<"a", "w", "a", "i", "t">>, <<"b", "r", "e", "a", "k">>,
     <<"c", "l", "a", "s", "s">>,
     <<"c", "o", "n", "t", "i", "n", "u", "e">>, <<"d", "e", "f">>,
     <<"d", "e", "l">>, <<"e", "l", "i", "f">>, <<"e", "l", "s", "e">>,
     <<"e", "x", "c", "e", "p", "t">>,
     <<"f", "i", "n", "a", "l", "l", "y">>, <<"f", "o", "r">>,
     <<"f", "r", "o", "m">>, <<"g", "l", "o", "b", "a", "l">>,
     <<"i", "f">>, <<"i", "m", "p", "o", "r", "t">>, <<"i", "n">>,
     <<"i", "s">>, <<"l", "a", "m", "b", "d", "a">>,
     <<"n", "o", "n", "l", "o", "c", "a", "l">>, <<"n", "o", "t">>,
     <<"o", "r">>, <<"p", "a", "s", "s">>, <<"r", "a", "i", "s", "e">>,
     <<"r", "e", "t", "u", "r", "n">>, <<"t", "r", "y">>,
     <<"w", "h", "i", "l", "e">>, <<"w", "i", "t", "h">>,
     <<"y", "i", "e", "l", "d">>}

BinOps == {"+", "-", "*", ">", "<"}

\* The tokens of one physical line: maximal runs of identifier characters
\* and single punctuation characters, up to the comment.
Tokenize(line) ==
    LET hashes == {i \in 1..Len(line) : line[i] = "#"}
        stop == IF hashes = {} THEN Len(line)
                ELSE (CHOOSE h \in hashes : \A g \in hashes : h <= g) - 1
        starts == {i \in 1..stop :
                     /\ ~IsSpace(line[i])
                     /\ \/ ~IsIdentChar(line[i])
                        \/ i = 1
                        \/ ~IsIdentChar(line[i - 1])}
        end(i) == IF ~IsIdentChar(line[i]) THEN i
                  ELSE CHOOSE j \in i..stop :
                           /\ (j = stop \/ ~IsIdentChar(line[j + 1]))
                           /\ \A k \in i..j : IsIdentChar(line[k])
        nth(k) == CHOOSE s \in starts : Cardinality({r \in starts : r <= s}) = k
    IN  [k \in 1..Cardinality(starts) |-> SubSeq(line, nth(k), end(nth(k)))]

IsNumber(tok) == \A i \in 1..Len(tok) : tok[i] \in Digits

IsName(tok) ==
    /\ tok[1] \in Letters
    /\ \A i \in 1..Len(tok) : IsIdentChar(tok[i])
    /\ tok \notin Keywords

IsOperand(tok) ==
    IsName(tok) \/ IsNumber(tok) \/ tok \in {W_None, W_True, W_False}

\* operand (op operand)*
IsExpr(toks) ==
    /\ Len(toks) % 2 = 1
    /\ \A i \in 1..Len(toks) :
          IF i % 2 = 1 THEN IsOperand(toks[i])
          ELSE Len(toks[i]) = 1 /\ toks[i][1] \in BinOps

\* The Name nodes in Load context of an expression.
ExprLoads(toks) == {toks[i] : i \in {j \in 1..Len(toks) : IsName(toks[j])}}

NoStmt == [ok |-> FALSE, kind |-> "error", opens |-> FALSE,
           assigned |-> {}, params |-> {}, loads |-> {}, loop_targets |-> {}]

Stmt(kind, opens, assigned, params, loads) ==
    [ok |-> TRUE, kind |-> kind, opens |-> opens,
     assigned |-> assigned, params |-> params, loads |-> loads,
     loop_targets |-> {}]

\* A simple statement: pass, return [expr], NAME = expr, expr.
ParseSimple(toks) ==
    IF toks = <<W_pass>> THEN Stmt("simple", FALSE, {}, {}, {})
    ELSE IF toks[1] = W_return
    THEN IF Len(toks) = 1 THEN Stmt("simple", FALSE, {}, {}, {})
         ELSE IF IsExpr(Tail(toks))
         THEN Stmt("simple", FALSE, {}, {}, ExprLoads(Tail(toks)))
         ELSE NoStmt
    ELSE IF Len(toks) >= 3 /\ toks[2] = <<"=">>
    THEN IF IsName(toks[1]) /\ IsExpr(SubSeq(toks, 3, Len(toks)))
         THEN Stmt("simple", FALSE, {toks[1]}, {},
                   ExprLoads(SubSeq(toks, 3, Len(toks))))
         ELSE NoStmt
    ELSE IF IsExpr(toks) THEN Stmt("simple", FALSE, {}, {}, ExprLoads(toks))
    ELSE NoStmt

\* The parameter list of a def: NAME (, NAME)* or nothing.
IsParams(toks) ==
    \/ toks = <<>>
    \/ /\ Len(toks) % 2 = 1
       /\ \A i \in 1..Len(toks) :
             IF i % 2 = 1 THEN IsName(toks[i]) ELSE toks[i] = <<",">>

\* The header of a compound statement, without keyword and colon.
ParseHeader(kw, h) ==
    IF kw \in {W_if, W_elif, W_while}
    THEN IF IsExpr(h)
         THEN Stmt(IF kw = W_while THEN "while" ELSE IF kw = W_if THEN "if" ELSE "elif",
                   TRUE, {}, {}, ExprLoads(h))
         ELSE NoStmt
    ELSE IF kw = W_for
    THEN IF /\ Len(h) >= 3
            /\ IsName(h[1])
            /\ h[2] = W_in
            /\ IsExpr(SubSeq(h, 3, Len(h)))
         THEN [Stmt("for", TRUE, {}, {}, ExprLoads(SubSeq(h, 3, Len(h))))
                  EXCEPT !.loop_targets = {h[1]}]
         ELSE NoStmt
    ELSE IF kw = W_def
    THEN IF /\ Len(h) >= 3
            /\ IsName(h[1])
            /\ h[2] = <<"(">>
            /\ h[Len(h)] = <<")">>
            /\ IsParams(SubSeq(h, 3, Len(h) - 1))
         THEN Stmt("def", TRUE, {}, ExprLoads(SubSeq(h, 3, Len(h) - 1)), {})
         ELSE NoStmt
    ELSE IF Len(h) = 1 /\ IsName(h[1]) THEN Stmt("class", TRUE, {}, {}, {})
    ELSE NoStmt

\* One logical line: a compound-statement header with an optional simple
\* statement after its colon, or a simple statement.
ParseLine(toks) ==
    IF toks[1] \in BlockKeywords
    THEN LET colons == {i \in 1..Len(toks) : toks[i] = <<":">>}
         IN  IF colons = {} THEN NoStmt
             ELSE LET p == CHOOSE c \in colons : \A d \in colons : c <= d
                      head == ParseHeader(toks[1], SubSeq(toks, 2, p - 1))
                      rest == SubSeq(toks, p + 1, Len(toks))
                  IN  IF ~head.ok THEN NoStmt
                      ELSE IF rest = <<>> THEN head
                      ELSE LET body == ParseSimple(rest)
                           IN  IF ~body.ok THEN NoStmt
                               ELSE [head EXCEPT
                                        !.opens = FALSE,
                                        !.assigned = body.assigned,
                                        !.loads = head.loads \cup body.loads]
    ELSE ParseSimple(toks)

NoTree == [ok |-> FALSE, assigned |-> {}, params |-> {}, loads |-> {},
           loop_targets |-> {}]

EmptyTree == [ok |-> TRUE, assigned |-> {}, params |-> {}, loads |-> {},
              loop_targets |-> {}]

\* Python's block structure over the logical lines from index i on.
\* stack: the open indentation levels; expect: the previous header needs an
\* indented block; chain: the levels at which an if/elif has just ended.
RECURSIVE ParseBlocks(_, _, _, _, _, _)
ParseBlocks(lines, i, stack, expect, chain, acc) ==
    IF i > Len(lines)
    THEN IF expect THEN NoTree ELSE acc
    ELSE LET toks == Tokenize(lines[i])
         IN  IF toks = <<>>
             THEN ParseBlocks(lines, i + 1, stack, expect, chain, acc)
             ELSE LET col == LeadingWs(lines[i])
                      st == ParseLine(toks)
                      open == {k \in 1..Len(stack) : stack[k] <= col}
                      kept == SubSeq(stack, 1, Cardinality(open))
                      levelOk ==
                          IF expect THEN col > stack[Len(stack)]
                          ELSE kept[Len(kept)] = col
                      stack2 == IF expect THEN Append(stack, col) ELSE kept
                      chain2 == {l \in chain : l < col}
                                  \cup (IF st.kind \in {"if", "elif"}
                                        THEN {col} ELSE {})
                  IN  IF \/ ~st.ok
                         \/ ~levelOk
                         \/ (st.kind = "elif" /\ col \notin chain)
                      THEN NoTree
                      ELSE ParseBlocks(lines, i + 1, stack2, st.opens, chain2,
                               [ok |-> TRUE,
                                assigned |-> acc.assigned \cup st.assigned,
                                params |-> acc.params \cup st.params,
                                loads |-> acc.loads \cup st.loads,
                                loop_targets |->
                                    acc.loop_targets \cup st.loop_targets])

\* ast.parse(code): whether the text parses and, of the tree, the Name
\* targets of Assign nodes, the args of FunctionDef nodes, the Name nodes in
\* Load context and the Name targets of For nodes.
Parse(code) == ParseBlocks(Split(code), 1, <<0>>, FALSE, {}, EmptyTree)

(***************************************************************************)
(* fix_undefined_variables (scope stub insertion).                         *)
(***************************************************************************)
\* dir(__builtins__), as far as the names of the model's texts go.
builtin_names ==
    {W_id, <<"l", "e", "n">>, <<"a", "b", "s">>,
     <<"p", "r", "i", "n", "t">>, <<"r", "a", "n", "g", "e">>}

\* Lines 69-79: the Name targets of Assign nodes and the args of
\* FunctionDef nodes.
defined_vars(tree) == tree.assigned \cup tree.params

\* Lines 80-81: the Name nodes in Load context.
used_vars(tree) == tree.loads

\* Line 83
undefined_vars(tree) ==
    (used_vars(tree) \ defined_vars(tree)) \ builtin_names

\* The orders in which a set can be iterated.
Orderings(S) ==
    {o \in [1..Cardinality(S) -> S] :
        \A i, j \in 1..Cardinality(S) : i # j => o[i] # o[j]}

\* f'{var} = 0\n'
StubLine(var) == var \o <<SP, "=", SP, "0">>

\* declarations without the newline that ends each stub.
RECURSIVE declarations_no_newline(_)
declarations_no_newline(order) ==
    IF order = <<>> THEN <<>>
    ELSE StubLine(order[1]) \o declarations_no_newline(Tail(order))

\* Line 87: ''.join(f'{var} = 0\n' for var in undefined_vars), the set
\* iterated in the order given.
RECURSIVE declarations(_)
declarations(order) ==
    IF order = <<>> THEN <<>>
    ELSE StubLine(order[1]) \o <<NL>> \o declarations(Tail(order))

\* The stage's result when the set of undefined names is iterated in the
\* given order; the except clause returns the text as it was given.
fix_undefined_variables(code, order) ==
    LET tree == Parse(code)
    IN  IF ~tree.ok THEN code
        ELSE IF undefined_vars(tree) = {} THEN code
        ELSE declarations(order) \o code

\* The orders the set of undefined names of a text can be iterated in
\* (the empty order alone when the text does not parse).
StubOrders(code) ==
    LET tree == Parse(code)
    IN  IF tree.ok THEN Orderings(undefined_vars(tree)) ELSE {<<>>}

(***************************************************************************)
(* fix_undefined_returns (return sanitization).                            *)
(***************************************************************************)
\* return_defined_vars without the Assign branch of the walk.
return_defined_params_only(tree) == tree.params

\* Lines 98-107: the defined names, collected again.
return_defined_vars(tree) == tree.assigned \cup tree.params

\* line.strip().startswith('return ')
IsReturnLine(line) == StartsWith(Strip(line), W_return \o <<SP>>)

\* line.strip().split()[1], for a line that IsReturnLine.
return_var(line) ==
    LET rest == Strip(SubSeq(Strip(line), Len(W_return) + 1, Len(Strip(line))))
        spaces == {i \in 1..Len(rest) : IsSpace(rest[i])}
    IN  IF spaces = {} THEN rest
        ELSE SubSeq(rest, 1, (CHOOSE s \in spaces : \A r \in spaces : s <= r) - 1)

\* Lines 111-116: one line of the loop.
SanitizeLine(line, defined) ==
    IF IsReturnLine(line) /\ return_var(line) \notin defined
    THEN ReturnNone
    ELSE line

\* fix_undefined_returns with an except clause that returns nothing.
fix_undefined_returns_no_fallback(code) ==
    LET tree == Parse(code)
        lines == Split(code)
    IN  IF ~tree.ok THEN <<>>
        ELSE Join([i \in 1..Len(lines) |->
                      SanitizeLine(lines[i], return_defined_vars(tree))])

fix_undefined_returns(code) ==
    LET tree == Parse(code)
        lines == Split(code)
    IN  IF ~tree.ok THEN code
        ELSE Join([i \in 1..Len(lines) |->
                      SanitizeLine(lines[i], return_defined_vars(tree))])

(***************************************************************************)
(* auto_format_with_black (delegated formatting).  The formatter is an     *)
(* external program: it is missing (subprocess.run raises, the except      *)
(* clause returns the text), it fails on the text and leaves the file as   *)
(* written, or it rewrites the file.                                       *)
(***************************************************************************)
BlackOutcomes == {"missing", "failed", "formatted"}

\* A line without its trailing whitespace.
RStrip(line) ==
    IF Strip(line) = <<>> THEN <<>>
    ELSE SubSeq(line, 1, LeadingWs(line) + Len(Strip(line)))

\* What the formatter leaves in the file when it succeeds: no trailing
\* whitespace, no blank lines at the end, one final newline.
RECURSIVE DropTrailingBlank(_)
DropTrailingBlank(lines) ==
    IF lines # <<>> /\ lines[Len(lines)] = <<>>
    THEN DropTrailingBlank(SubSeq(lines, 1, Len(lines) - 1))
    ELSE lines

BlackFormat(code) ==
    LET lines == Split(code)
        kept == DropTrailingBlank([i \in 1..Len(lines) |-> RStrip(lines[i])])
    IN  IF kept = <<>> THEN <<>> ELSE Join(kept) \o <<NL>>

auto_format_with_black(code, outcome) ==
    IF outcome = "formatted" THEN BlackFormat(code) ELSE code

(***************************************************************************)
(* The texts an engine is constructed with.                                *)
(***************************************************************************)
Pad(n) == [i \in 1..n |-> "a"]

\* 'if aaa...a:' of length n
LongIf(n) == W_if \o <<SP>> \o Pad(n - 4) \o <<":">>

Vocabulary ==
    {<<>>,
     W_def \o <<SP, "f", "(", "i", ")", ":">>,
     Indent4 \o W_if \o <<SP, "x">>,
     W_for \o <<SP, "i", SP>> \o W_in \o <<SP>> \o W_id \o <<":">>,
     Indent4 \o W_return \o <<SP, "i">>,
     Indent4 \o W_return \o <<SP, "5">>,
     W_if \o <<TAB, "x">>,
     <<"i", SP, "=", SP, "5">>,
     LongIf(MaxLineLength),
     LongIf(MaxLineLength + 1)}

\* "def f():\n    if x > 5\n        return y\n"
Scenario ==
    Join(<<W_def \o <<SP, "f", "(", ")", ":">>,
           Indent4 \o W_if \o <<SP, "x", SP, ">", SP, "5">>,
           Indent4 \o Indent4 \o W_return \o <<SP, "y">>,
           <<>>>>)

Texts ==
    {Scenario} \cup
    UNION {{Join(ls) : ls \in [1..n -> Vocabulary]} : n \in 1..MaxLines}

(***************************************************************************)
(* auto_fix_code: the five stages, one step each.                          *)
(***************************************************************************)
Stages == <<"syntax", "vars", "returns", "style", "black">>

\* __init__
Init ==
    /\ original_code \in Texts
    /\ fixed_code = original_code
    /\ stage_input = original_code
    /\ pc = "syntax"
    /\ trace = <<>>
    /\ run = 1
    /\ formatter = "not run"

\* Line 141
AutoFixSyntaxErrors ==
    /\ pc = "syntax"
    /\ stage_input' = original_code
    /\ fixed_code' = auto_fix_syntax_errors(original_code)
    /\ trace' = Append(trace, "syntax")
    /\ pc' = "vars"
    /\ UNCHANGED <<original_code, run, formatter>>

\* Line 144
FixUndefinedVariables ==
    /\ pc = "vars"
    /\ \E order \in StubOrders(fixed_code) :
          fixed_code' = fix_undefined_variables(fixed_code, order)
    /\ stage_input' = fixed_code
    /\ trace' = Append(trace, "vars")
    /\ pc' = "returns"
    /\ UNCHANGED <<original_code, run, formatter>>

\* FixUndefinedReturns called with self.original_code.
FixUndefinedReturnsOfOriginal ==
    /\ pc = "returns"
    /\ stage_input' = original_code
    /\ fixed_code' = fix_undefined_returns(original_code)
    /\ trace' = Append(trace, "returns")
    /\ pc' = "style"
    /\ UNCHANGED <<original_code, run, formatter>>

\* Line 147
FixUndefinedReturns ==
    /\ pc = "returns"
    /\ stage_input' = fixed_code
    /\ fixed_code' = fix_undefined_returns(fixed_code)
    /\ trace' = Append(trace, "returns")
    /\ pc' = "style"
    /\ UNCHANGED <<original_code, run, formatter>>

\* Line 150
FixStyleIssues ==
    /\ pc = "style"
    /\ stage_input' = fixed_code
    /\ fixed_code' = fix_style_issues(fixed_code)
    /\ trace' = Append(trace, "style")
    /\ pc' = "black"
    /\ UNCHANGED <<original_code, run, formatter>>

\* Line 153; the formatter rewrites only a text it can parse.
AutoFormatWithBlack ==
    /\ pc = "black"
    /\ \E outcome \in BlackOutcomes :
          /\ outcome = "formatted" => Parse(fixed_code).ok
          /\ fixed_code' = auto_format_with_black(fixed_code, outcome)
          /\ formatter' = outcome
    /\ stage_input' = fixed_code
    /\ trace' = Append(trace, "black")
    /\ pc' = "done"
    /\ UNCHANGED <<original_code, run>>

\* A new engine constructed with the text the four repair stages produced
\* (the pipeline without the formatting stage, run again).
Rerun ==
    /\ pc = "black"
    /\ run < MaxRuns
    /\ original_code' = fixed_code
    /\ stage_input' = fixed_code
    /\ trace' = <<>>
    /\ pc' = "syntax"
    /\ run' = run + 1
    /\ UNCHANGED <<fixed_code, formatter>>

\* Lines 133-159: a step of auto_fix_code.
PipelineStep ==
    \/ AutoFixSyntaxErrors
    \/ FixUndefinedVariables
    \/ FixUndefinedReturns
    \/ FixStyleIssues
    \/ AutoFormatWithBlack

Next ==
    \/ PipelineStep
    \/ Rerun

Spec == Init /\ [][Next]_vars

(***************************************************************************)
(* Properties.                                                             *)
(***************************************************************************)
\* The stage that ran last in the current run.
LastStage == IF trace = <<>> THEN "none" ELSE trace[Len(trace)]

CountLines(lines, l) == Cardinality({i \in 1..Len(lines) : lines[i] = l})

CountChar(text, c) == Cardinality({i \in 1..Len(text) : text[i] = c})

\* The text in front of the stage's input in its output.
Prepended == SubSeq(fixed_code, 1, Len(fixed_code) - Len(stage_input))

EndsWithInput ==
    /\ Len(fixed_code) >= Len(stage_input)
    /\ SubSeq(fixed_code, Len(fixed_code) - Len(stage_input) + 1,
              Len(fixed_code)) = stage_input

\* C1: running the four repair stages a second time, on the text they
\* produced, adds no ':' and no placeholder line, prepends no stub, and
\* leaves no line longer than 100 characters that was not so before.
C1_RerunAddsNothing ==
    run = 2 =>
        /\ LastStage = "syntax" =>
              /\ CountChar(fixed_code, ":") = CountChar(stage_input, ":")
              /\ Len(Split(fixed_code)) = Len(Split(stage_input))
        /\ LastStage = "vars" => fixed_code = stage_input
        /\ LastStage = "style" =>
              LET ins == Split(stage_input)
                  outs == Split(fixed_code)
              IN  /\ Len(outs) = Len(ins)
                  /\ \A i \in 1..Len(outs) :
                        Len(outs[i]) > MaxLineLength
                            => Len(ins[i]) > MaxLineLength

\* "def f():\n    if x > 5:\n        return y\n"
ScenarioRepaired ==
    Join(<<W_def \o <<SP, "f", "(", ")", ":">>,
           Indent4 \o W_if \o <<SP, "x", SP, ">", SP, "5", ":">>,
           Indent4 \o Indent4 \o W_return \o <<SP, "y">>,
           <<>>>>)

ScenarioReturnLine == Indent4 \o Indent4 \o W_return \o <<SP, "y">>

\* The scenario's run has just finished return sanitization.
C2_Witness ==
    original_code = Scenario /\ run = 1 /\ LastStage = "returns"

\* The text return sanitization is given in the scenario: a stub for x and
\* one for y, in either order, in front of the repaired text.
ScenarioStubbed ==
    stage_input \in {declarations(o) \o ScenarioRepaired :
                        o \in Orderings({<<"x">>, <<"y">>})}

\* C2 as stated: in the scenario, stubs for x and y are put at the top and
\* return sanitization then rewrites the `return y` line to `return None`.
C2_Original ==
    C2_Witness =>
        /\ ScenarioStubbed
        /\ CountLines(Split(fixed_code), ReturnNone) = 1
        /\ CountLines(Split(fixed_code), ScenarioReturnLine) = 0

\* C2 as amended: in the scenario, stubs for x and y are put at the top and
\* return sanitization then leaves the text, and so its `return y` line,
\* as it is: the stub has made y a defined name.
C2_ScenarioKeepsReturn ==
    C2_Witness =>
        /\ ScenarioStubbed
        /\ fixed_code = stage_input
        /\ CountLines(Split(fixed_code), ScenarioReturnLine) = 1
        /\ CountLines(Split(fixed_code), ReturnNone) = 0

\* C3 as stated: after stub insertion, every name the text reads and never
\* assigns has exactly one stub line, and the analysis of the output has it
\* defined.
C3_Original ==
    LastStage = "vars" =>
        LET tree == Parse(stage_input)
        IN  \A x \in tree.loads \ tree.assigned :
                /\ CountLines(Split(fixed_code), StubLine(x)) = 1
                /\ x \in defined_vars(Parse(fixed_code))

\* The names of a parsed text that it reads, that are no built-in names and
\* that no simple assignment and no function parameter binds.
UnboundReads(tree) ==
    tree.loads \ (tree.assigned \cup tree.params \cup builtin_names)

\* C3 as amended: for a text that parses, and a name it reads that is no
\* built-in name and is bound neither by a simple assignment nor as a
\* function parameter, the output is the input with stub lines in front,
\* exactly one of them for that name; the output parses, its analysis has
\* the name defined, and a second stub insertion adds nothing for it.
C3_StubForUnboundRead ==
    LastStage = "vars" =>
        LET tree == Parse(stage_input)
        IN  \A x \in UnboundReads(tree) :
                /\ EndsWithInput
                /\ CountLines(Split(Prepended), StubLine(x)) = 1
                /\ CountLines(Split(fixed_code), StubLine(x)) = 1
                /\ Parse(fixed_code).ok
                /\ x \in defined_vars(Parse(fixed_code))
                /\ \A o \in StubOrders(fixed_code) :
                      \A k \in 1..Len(o) : o[k] # x

\* Stub insertion has run on a text that parses and reads an unbound name.
C3_Witness ==
    /\ LastStage = "vars"
    /\ run = 1
    /\ Parse(stage_input).ok
    /\ UnboundReads(Parse(stage_input)) # {}
    /\ fixed_code # stage_input

\* C4 as stated, from input line i and output line j on: every input line is
\* kept as it is or with ':' appended, in order, and a placeholder line
\* comes only directly after a line this stage appended ':' to.
RECURSIVE AppendsOnly(_, _, _, _)
AppendsOnly(ins, outs, i, j) ==
    IF i > Len(ins) THEN j > Len(outs)
    ELSE /\ j <= Len(outs)
         /\ outs[j] \in {ins[i], ins[i] \o <<":">>}
         /\ \/ AppendsOnly(ins, outs, i + 1, j + 1)
            \/ /\ outs[j] # ins[i]
               /\ j + 1 <= Len(outs)
               /\ outs[j + 1] = PassLine
               /\ AppendsOnly(ins, outs, i + 1, j + 2)

C4_Original ==
    LastStage = "syntax" =>
        AppendsOnly(Split(stage_input), Split(fixed_code), 1, 1)

\* A line with every tab replaced by four spaces.
Untabbed(line) ==
    LET tabs(k) == Cardinality({t \in 1..k : line[t] = TAB})
        n == Len(line) + 3 * tabs(Len(line))
    IN  IF tabs(Len(line)) = 0 THEN line
        ELSE [p \in 1..n |->
                LET k == CHOOSE q \in 1..Len(line) :
                             /\ q + 3 * tabs(q) >= p
                             /\ \A r \in 1..(q - 1) : r + 3 * tabs(r) < p
                IN  IF line[k] = TAB THEN SP ELSE line[k]]

\* C4 as amended, from input line i and output line j on: every input line
\* is kept, in order, with its tabs replaced by four spaces and possibly
\* ':' appended, and a placeholder line comes only directly after a line
\* that ends with ':' and whose next input line is absent or blank.
RECURSIVE AppendsAndUntabs(_, _, _, _)
AppendsAndUntabs(ins, outs, i, j) ==
    IF i > Len(ins) THEN j > Len(outs)
    ELSE /\ j <= Len(outs)
         /\ outs[j] \in {Untabbed(ins[i]), Untabbed(ins[i]) \o <<":">>}
         /\ \/ AppendsAndUntabs(ins, outs, i + 1, j + 1)
            \/ /\ outs[j] # <<>>
               /\ outs[j][Len(outs[j])] = ":"
               /\ (i = Len(ins) \/ Strip(ins[i + 1]) = <<>>)
               /\ j + 1 <= Len(outs)
               /\ outs[j + 1] = PassLine
               /\ AppendsAndUntabs(ins, outs, i + 1, j + 2)

C4_AppendsUntabsAndPlaceholders ==
    LastStage = "syntax" =>
        AppendsAndUntabs(Split(stage_input), Split(fixed_code), 1, 1)

\* Structural-token repair has appended a ':', replaced a tab and inserted
\* a placeholder line.
C4_Witness ==
    /\ LastStage = "syntax"
    /\ CountChar(stage_input, TAB) > 0
    /\ CountChar(fixed_code, ":") > CountChar(stage_input, ":")
    /\ Len(Split(fixed_code)) > Len(Split(stage_input))

\* C5: line truncation keeps the number and order of the lines; a line
\* longer than 100 characters becomes its first 100 characters followed by
\* the marker, any other line is unchanged.
C5_LineTruncation ==
    LastStage = "style" =>
        LET ins == Split(stage_input)
            outs == Split(fixed_code)
        IN  /\ Len(outs) = Len(ins)
            /\ \A i \in 1..Len(ins) :
                  IF Len(ins[i]) > 100
                  THEN /\ Len(outs[i]) = 100 + Len(TruncMarker)
                       /\ SubSeq(outs[i], 1, 100) = SubSeq(ins[i], 1, 100)
                       /\ SubSeq(outs[i], 101, Len(outs[i])) = TruncMarker
                  ELSE outs[i] = ins[i]

\* Line truncation has run on a text with a line of exactly 100 characters
\* and a longer one.
C5_Witness ==
    /\ LastStage = "style"
    /\ \E i \in 1..Len(Split(stage_input)) : Len(Split(stage_input)[i]) = 100
    /\ \E i \in 1..Len(Split(stage_input)) : Len(Split(stage_input)[i]) > 100

\* A stage that failed inside has returned the text it was given, and the
\* run stands at the stage after it.
FailedStageReturnedInput ==
    /\ (LastStage = "vars" /\ ~Parse(stage_input).ok)
           => (fixed_code = stage_input /\ pc = "returns")
    /\ (LastStage = "returns" /\ ~Parse(stage_input).ok)
           => (fixed_code = stage_input /\ pc = "style")
    /\ (LastStage = "black" /\ formatter \in {"missing", "failed"})
           => (fixed_code = stage_input /\ pc = "done")

\* C6: a stage that fails inside (stub insertion or return sanitization on
\* a text that does not parse, formatting with the formatter missing or
\* failing) returns the text it was given and the run stands at the next
\* stage; a run that has ended has run every stage.
C6_FailingStageReturnsInput ==
    /\ FailedStageReturnedInput
    /\ pc = "done" => trace = Stages

\* A run has ended in which the text did not parse and the formatter was
\* missing.
C6_Witness ==
    /\ pc = "done"
    /\ run = 1
    /\ formatter = "missing"
    /\ ~Parse(auto_fix_syntax_errors(original_code)).ok
    /\ ~Parse(fixed_code).ok

\* C7: a run executes the five stages in the fixed order, each once, and
\* each stage is given the text the stage before it produced (the first
\* one the engine's text).
C7_FixedStageOrder ==
    [][/\ trace' = SubSeq(Stages, 1, Len(trace'))
       /\ (pc' = "done" => trace' = Stages)
       /\ (pc' # "done" => pc' = Stages[Len(trace') + 1])
       /\ (Len(trace') = Len(trace) + 1 =>
              stage_input' = IF trace = <<>> THEN original_code
                             ELSE fixed_code)]_vars

\* A run has ended, and it changed the text.
C7_Witness ==
    /\ pc = "done"
    /\ trace = Stages
    /\ fixed_code # original_code

\* The names the stub lines in front of the input are for.
StubLinesPrepended ==
    LET lines == Split(Prepended)
    IN  {lines[i] : i \in {k \in 1..Len(lines) : lines[k] # <<>>}}

\* C8: stub insertion prepends a stub for exactly the names in
\* used - defined - loopBound - builtinNames.
C8_StubsExcludeLoopBound ==
    (LastStage = "vars" /\ Parse(stage_input).ok) =>
        LET tree == Parse(stage_input)
            undefined == ((used_vars(tree) \ defined_vars(tree))
                             \ tree.loop_targets) \ builtin_names
        IN  /\ EndsWithInput
            /\ StubLinesPrepended = {StubLine(x) : x \in undefined}

\* A return statement whose operand is one bare identifier.
ReturnsBareName(line) ==
    LET toks == Tokenize(line)
    IN  Len(toks) = 2 /\ toks[1] = W_return /\ IsName(toks[2])

\* C9: return sanitization changes a line if and only if it is a return of
\* one bare identifier that is not in the defined set.
C9_OnlyUndefinedBareReturns ==
    (LastStage = "returns" /\ Parse(stage_input).ok) =>
        LET ins == Split(stage_input)
            outs == Split(fixed_code)
            defined == defined_vars(Parse(stage_input))
        IN  /\ Len(outs) = Len(ins)
            /\ \A i \in 1..Len(ins) :
                  outs[i] # ins[i] <=>
                      (ReturnsBareName(ins[i]) /\ Tokenize(ins[i])[2] \notin defined)

\* C10: after structural-token repair no block opener is followed by a
\* blank line or by nothing, and a placeholder after an opener is indented
\* deeper than the opener.
C10_PlaceholderInsideBlock ==
    (LastStage = "syntax" /\ run = 1) =>
        LET outs == Split(fixed_code)
        IN  \A k \in 1..Len(outs) :
                BlockOpenerRe(outs[k]) =>
                    /\ k < Len(outs)
                    /\ Strip(outs[k + 1]) # <<>>
                    /\ outs[k + 1] = PassLine =>
                           LeadingWs(outs[k + 1]) > LeadingWs(outs[k])

====
